---- MODULE Spec2Model ----
(***************************************************************************)
(* KeyCloakAdminProvider (src/index.ts): a stateless client of a Keycloak  *)
(* realm's admin REST API.  Every public operation is an async function:   *)
(* it runs from one `await` to the next without interruption, so one       *)
(* action of the model is the remote answer to the pending request         *)
(* together with the code that runs until the next request is sent (or     *)
(* the operation settles).  The realm (the remote user collection) is the  *)
(* only state shared between invocations.                                  *)
(***************************************************************************)
EXTENDS Integers, Sequences, FiniteSets, TLC

VARIABLES
    inv,     \* inv[i]: the frame of caller i's current (or last) invocation
    realm,   \* the remote realm: its user records and the ids it has issued
    calls    \* invocations entered so far

vars == <<inv, realm, calls>>

-----------------------------------------------------------------------------
(* Bounds *)

MaxCalls == 2      \* invocations of public operations in one behaviour
MaxUsers == 2      \* user records the realm creates in one behaviour

\* Two callers share one provider instance; each awaits its invocation and
\* may then invoke again, so up to two invocations are in flight at once.
Callers == {1, 2}

-----------------------------------------------------------------------------
(* JavaScript values *)

\* `undefined`; interpolated into a template string it reads "undefined"
Undefined == "undefined"

\* !x for the strings the code tests (accessToken, queryParams)
Falsy(x) == x = Undefined \/ x = ""

-----------------------------------------------------------------------------
(* Inputs of the public operations *)

UserDatas ==
    { [email |-> "a@x.com", username |-> Undefined, firstName |-> "Ann",
       lastName |-> "Lee", enabled |-> TRUE, emailVerified |-> TRUE,
       attributes |-> << <<"dept", <<"eng">> >> >>],
      [email |-> "a@x.com", username |-> "ann", firstName |-> "Ann",
       lastName |-> "Lee", enabled |-> TRUE, emailVerified |-> FALSE,
       attributes |-> << >>],
      [email |-> "b@x.com", username |-> Undefined, firstName |-> "Bob",
       lastName |-> Undefined, enabled |-> FALSE, emailVerified |-> FALSE,
       attributes |-> << <<"dept", <<"ops", "eng">> >>, <<"team", << >> >> >>] }

IdOf(n) == "u" \o ToString(n)

QueryParams == { Undefined, "?role=admin" }

\* bearer strings the token endpoint hands out
Tokens == { "t1", "t2" }

-----------------------------------------------------------------------------
(* Errors.  response is <<r>> for an HTTP error answer r and << >> when    *)
(* there is none; cause is <<e>> for a wrapped error e.                    *)

AxiosError(r) ==
    [name |-> "AxiosError", message |-> "Request failed",
     response |-> IF r.status = 0 THEN << >> ELSE <<r>>, cause |-> << >>]

TypeError ==
    [name |-> "TypeError", message |-> "Cannot read properties of undefined",
     response |-> << >>, cause |-> << >>]

Error(message) ==
    [name |-> "Error", message |-> message, response |-> << >>, cause |-> << >>]

\* variant of KeyCloakAdminError that loses the wrapped error
KeyCloakAdminError_dropCause(message, error) ==
    [name |-> "KeyCloakAdminError", message |-> message,
     response |-> << >>, cause |-> << >>]

KeyCloakAdminError(message, error) ==
    [name |-> "KeyCloakAdminError", message |-> message,
     response |-> << >>, cause |-> <<error>>]

NotInitialized == Error("Keycloak admin client is not initialized")

\* axios rejects an answer whose status is outside 2xx (0: no answer at all)
AxiosRejects(r) == r.status < 200 \/ r.status >= 300

\* error?.response?.data?.errorMessage
ErrorMessageOf(error) ==
    IF Len(error.response) = 0 THEN Undefined
    ELSE IF Len(error.response[1].data) = 0 THEN Undefined
    ELSE error.response[1].data[1].errorMessage

-----------------------------------------------------------------------------
(* Requests.  route names the endpoint under                               *)
(* ${keycloak_base_url}/admin/realms/${keycloak_realm_name} (or the token  *)
(* endpoint), arg the text interpolated into the URL, auth the             *)
(* Authorization header, data the body (<< >>: none).                      *)

Request(method, route, arg, auth, data) ==
    [method |-> method, route |-> route, arg |-> arg, auth |-> auth, data |-> data]

\* variant of Bearer that sends one fixed token instead of the caller's own
Bearer_fixed(accessToken) == "Bearer " \o "t1"

\* Authorization: `Bearer ${accessToken}`
Bearer(accessToken) == "Bearer " \o accessToken

TokenRequest == Request("post", "/protocol/openid-connect/token", "", "", << >>)

CreateRequest(accessToken, userData) ==
    Request("post", "/users/", "", Bearer(accessToken), <<userData>>)

LookupRequest(accessToken, username) ==
    Request("get", "/users/?username=", username, Bearer(accessToken), << >>)

UpdateRequest(accessToken, id, userData) ==
    Request("put", "/users/{id}", id, Bearer(accessToken), <<userData>>)

GetRequest(accessToken, username) ==
    Request("get", "/users/{id}", username, Bearer(accessToken), << >>)

DeleteRequest(accessToken, username) ==
    Request("delete", "/users/{id}", username, Bearer(accessToken), << >>)

defaultQP == "max=10000"

ListQuery(queryParams) ==
    IF ~Falsy(queryParams) THEN queryParams \o "&" \o defaultQP ELSE "?" \o defaultQP

ListRequest(accessToken, queryParams) ==
    Request("get", "/users{query}", ListQuery(queryParams), Bearer(accessToken), << >>)

-----------------------------------------------------------------------------
(* Frames of invocations *)

Pending == [kind |-> "pending", value |-> << >>, error |-> << >>]

Idle ==
    [op |-> "none", pc |-> "idle", userData |-> << >>, arg |-> Undefined,
     accessToken |-> Undefined, id |-> Undefined,
     reqs |-> << >>, resps |-> << >>, outcome |-> Pending]

\* axios.request(...) / axios.get(...) / axios.delete(...) followed by await
Send(s, req, pc) == [s EXCEPT !.reqs = Append(@, req), !.pc = pc]

\* the awaited promise settles with answer r
Receive(s, r) == [s EXCEPT !.resps = Append(@, r)]

Return(s, v) ==
    [s EXCEPT !.pc = "done",
              !.outcome = [kind |-> "returned", value |-> <<v>>, error |-> << >>]]

Throw(s, e) ==
    [s EXCEPT !.pc = "done",
              !.outcome = [kind |-> "threw", value |-> << >>, error |-> <<e>>]]

-----------------------------------------------------------------------------
(* getAccessToken *)

TokenError(error) == KeyCloakAdminError("Could not get a access token", error)

\* variant of GetAccessTokenResult that returns response.data, skips the
\* member access and so never meets the missing body
GetAccessTokenResult_wholeBody(r) ==
    IF AxiosRejects(r)
    THEN [ok |-> FALSE, value |-> Undefined, error |-> <<TokenError(AxiosError(r))>>]
    ELSE [ok |-> TRUE, value |-> "[object Object]", error |-> << >>]

\* the result of getAccessToken when the token endpoint answers r
GetAccessTokenResult(r) ==
    IF AxiosRejects(r)
    THEN [ok |-> FALSE, value |-> Undefined, error |-> <<TokenError(AxiosError(r))>>]
    ELSE IF Len(r.data) = 0
    THEN [ok |-> FALSE, value |-> Undefined, error |-> <<TokenError(TypeError)>>]
    ELSE [ok |-> TRUE, value |-> r.data[1].access_token, error |-> << >>]

\* a public operation is called: it runs into getAccessToken's request
Enter(op, userData, arg) ==
    Send([Idle EXCEPT !.op = op, !.userData = userData, !.arg = arg],
         TokenRequest, "awaitToken")

-----------------------------------------------------------------------------
(* createUser *)

CreationError(userData, error) ==
    KeyCloakAdminError("Could not create a new user: " \o userData.email, error)

UserExists == "User exists with same username"

\* data[0].id
FirstId(data) == data[1].id

CreateUserAfterToken(s, r) ==
    LET t == GetAccessTokenResult(r)
        s1 == Receive(s, r)
        s2 == [s1 EXCEPT !.accessToken = t.value]
    IN  IF ~t.ok THEN Throw(s1, t.error[1])
        ELSE Send(s2, CreateRequest(t.value, s.userData[1]), "awaitCreate")

\* variant of LookupAfterCreate that looks up userData.username
LookupAfterCreate_byUsername(s) == LookupRequest(s.accessToken, s.userData[1].username)

\* the lookup of lines 124-131
LookupAfterCreate(s) == LookupRequest(s.accessToken, s.userData[1].email)

\* the lookup of lines 101-108
LookupOnConflict(s) == LookupRequest(s.accessToken, s.userData[1].email)

\* variant of IsConflict that takes every failed create for the conflict
IsConflict_any(error) == TRUE

IsConflict(error) == ErrorMessageOf(error) = UserExists

CreateUserAfterCreate(s, r) ==
    LET s1 == Receive(s, r)
    IN  IF ~AxiosRejects(r) THEN Send(s1, LookupAfterCreate(s), "awaitLookupCreated")
        ELSE IF IsConflict(AxiosError(r))
        THEN Send(s1, LookupOnConflict(s), "awaitLookupExists")
        ELSE Throw(s1, CreationError(s.userData[1], AxiosError(r)))

CreateUserAfterLookupCreated(s, r) ==
    LET s1 == Receive(s, r)
    IN  IF AxiosRejects(r) THEN Throw(s1, CreationError(s.userData[1], AxiosError(r)))
        ELSE IF Len(r.data) = 0 THEN Throw(s1, CreationError(s.userData[1], TypeError))
        ELSE Return(s1, FirstId(r.data))

\* variant of ExistingId that takes the last record found
ExistingId_lastMatch(data) == data[Len(data)].id

\* const id = resp.data[0].id
ExistingId(data) == FirstId(data)

CreateUserAfterLookupExists(s, r) ==
    LET s1 == Receive(s, r)
    IN  IF AxiosRejects(r) THEN Throw(s1, CreationError(s.userData[1], AxiosError(r)))
        ELSE IF Len(r.data) = 0 THEN Throw(s1, CreationError(s.userData[1], TypeError))
        ELSE LET id == ExistingId(r.data)
             IN  Send([s1 EXCEPT !.id = id],
                      UpdateRequest(s.accessToken, id, s.userData[1]), "awaitUpdate")

\* variant of CreateUserAfterUpdate without `return id`
CreateUserAfterUpdate_noReturn(s, r) ==
    LET s1 == Receive(s, r)
    IN  IF AxiosRejects(r) THEN Throw(s1, CreationError(s.userData[1], AxiosError(r)))
        ELSE Return(s1, Undefined)

CreateUserAfterUpdate(s, r) ==
    LET s1 == Receive(s, r)
    IN  IF AxiosRejects(r) THEN Throw(s1, CreationError(s.userData[1], AxiosError(r)))
        ELSE Return(s1, s.id)

-----------------------------------------------------------------------------
(* getUser *)

\* new Date(ms): the instant ms milliseconds after the epoch
Date(ms) == [time |-> ms]

\* list[0]
ElementZero(list) == IF Len(list) = 0 THEN Undefined ELSE list[1]

\* variant of CustomAttributes that takes the last element of each value list
CustomAttributes_lastValue(attributes) ==
    [k \in 1..Len(attributes) |->
        [Name |-> attributes[k][1],
         Value |-> IF Len(attributes[k][2]) = 0 THEN Undefined
                   ELSE attributes[k][2][Len(attributes[k][2])]]]

\* Object.keys(attributes).map(key => ({Name: key, Value: attributes[key][0]}));
\* attributes is the sequence of the map's <<key, values>> entries in key order
CustomAttributes(attributes) ==
    [k \in 1..Len(attributes) |->
        [Name |-> attributes[k][1], Value |-> ElementZero(attributes[k][2])]]

TransformedResponse(data) ==
    [Enabled |-> data.enabled,
     UserCreateDate |-> Date(data.createdTimestamp),
     Username |-> data.id,
     UserLastModifiedDate |-> Date(data.createdTimestamp),
     UserAttributes |->
        CustomAttributes(data.attributes[1]) \o
        << [Name |-> "sub", Value |-> data.id],
           [Name |-> "emailVerified", Value |-> data.emailVerified],
           [Name |-> "given_name", Value |-> data.firstName],
           [Name |-> "family_name", Value |-> data.lastName],
           [Name |-> "email", Value |-> data.email] >>]

LookupError(username, error) ==
    KeyCloakAdminError("Error while getting a user with " \o username, error)

GetUserAfterToken(s, r) ==
    LET t == GetAccessTokenResult(r)
        s1 == Receive(s, r)
        s2 == [s1 EXCEPT !.accessToken = t.value]
    IN  IF ~t.ok THEN Throw(s1, t.error[1])
        ELSE IF Falsy(t.value) THEN Throw(s2, NotInitialized)
        ELSE Send(s2, GetRequest(t.value, s.arg), "awaitGet")

GetUserAfterGet(s, r) ==
    LET s1 == Receive(s, r)
    IN  IF AxiosRejects(r) THEN Throw(s1, LookupError(s.arg, AxiosError(r)))
        ELSE IF Len(r.data) = 0 THEN Throw(s1, LookupError(s.arg, TypeError))
        ELSE IF Len(r.data[1].attributes) = 0
        THEN Throw(s1, LookupError(s.arg, TypeError))
        ELSE Return(s1, TransformedResponse(r.data[1]))

-----------------------------------------------------------------------------
(* getUserList *)

ListError(error) == KeyCloakAdminError("Error while getting a users", error)

GetUserListAfterToken(s, r) ==
    LET t == GetAccessTokenResult(r)
        s1 == Receive(s, r)
        s2 == [s1 EXCEPT !.accessToken = t.value]
    IN  IF ~t.ok THEN Throw(s1, t.error[1])
        ELSE IF Falsy(t.value) THEN Throw(s2, NotInitialized)
        ELSE Send(s2, ListRequest(t.value, s.arg), "awaitList")

GetUserListAfterGet(s, r) ==
    LET s1 == Receive(s, r)
    IN  IF AxiosRejects(r) THEN Throw(s1, ListError(AxiosError(r)))
        ELSE Return(s1, r.data)

-----------------------------------------------------------------------------
(* deleteUser *)

DeletionError(username, error) ==
    KeyCloakAdminError("Error while deleting a user with " \o username, error)

DeleteUserAfterToken(s, r) ==
    LET t == GetAccessTokenResult(r)
        s1 == Receive(s, r)
        s2 == [s1 EXCEPT !.accessToken = t.value]
    IN  IF ~t.ok THEN Throw(s1, t.error[1])
        ELSE IF Falsy(t.value) THEN Throw(s2, NotInitialized)
        ELSE Send(s2, DeleteRequest(t.value, s.arg), "awaitDelete")

\* variant of DeleteUserAfterDelete that sends a failed delete once more
DeleteUserAfterDelete_retry(s, r) ==
    LET s1 == Receive(s, r)
    IN  IF AxiosRejects(r) /\ Len(s.reqs) < 3
        THEN Send(s1, DeleteRequest(s.accessToken, s.arg), "awaitDelete")
        ELSE IF AxiosRejects(r) THEN Throw(s1, DeletionError(s.arg, AxiosError(r)))
        ELSE Return(s1, r)

DeleteUserAfterDelete(s, r) ==
    LET s1 == Receive(s, r)
    IN  IF AxiosRejects(r) THEN Throw(s1, DeletionError(s.arg, AxiosError(r)))
        ELSE Return(s1, r)

-----------------------------------------------------------------------------
(* updateUser *)

\* variant of UpdateUserCatch that rethrows
UpdateUserCatch_rethrow(s, error) == Throw(s, error)

\* catch (error) { console.log(error); }: the function ends without a value
UpdateUserCatch(s, error) == Return(s, Undefined)

UpdateUserAfterToken(s, r) ==
    LET t == GetAccessTokenResult(r)
        s1 == Receive(s, r)
        s2 == [s1 EXCEPT !.accessToken = t.value]
    IN  IF ~t.ok THEN UpdateUserCatch(s1, t.error[1])
        ELSE IF Falsy(t.value) THEN UpdateUserCatch(s2, NotInitialized)
        ELSE Send(s2, UpdateRequest(t.value, s.arg, s.userData[1]), "awaitPut")

UpdateUserAfterPut(s, r) ==
    LET s1 == Receive(s, r)
    IN  IF AxiosRejects(r) THEN UpdateUserCatch(s1, AxiosError(r))
        ELSE Return(s1, Undefined)

-----------------------------------------------------------------------------
(* The remote side.  An answer is [status, data]: data is the JSON body,   *)
(* << >> for none, <<object>> for an object, the list itself for an array. *)

Answer(status, data) == [status |-> status, data |-> data]

\* no answer arrives (connection refused, timeout)
NoAnswer == Answer(0, << >>)

ErrorBody(errorMessage) == << [errorMessage |-> errorMessage] >>

\* answers of the token endpoint: a body with a token, with an empty token or
\* without the access_token member; no body; a refusal
TokenAnswers ==
    { Answer(200, << [access_token |-> t] >>) : t \in Tokens \cup {"", Undefined} }
        \cup { Answer(200, << >>), Answer(401, ErrorBody(Undefined)) }

Authorized(req) == req.auth \in { "Bearer " \o t : t \in Tokens }

EffectiveUsername(userData) ==
    IF userData.username = Undefined THEN userData.email ELSE userData.username

\* the record the realm keeps for a created user; attributes is << >> when
\* the user has none (the representation then has no attributes member)
NewRecord(n, userData) ==
    [id |-> IdOf(n), username |-> EffectiveUsername(userData),
     email |-> userData.email, firstName |-> userData.firstName,
     lastName |-> userData.lastName, enabled |-> userData.enabled,
     emailVerified |-> userData.emailVerified, createdTimestamp |-> 1000 + n,
     attributes |-> IF Len(userData.attributes) = 0 THEN << >>
                    ELSE <<userData.attributes>>]

Updated(u, userData) ==
    [u EXCEPT !.firstName = userData.firstName, !.lastName = userData.lastName,
              !.enabled = userData.enabled, !.emailVerified = userData.emailVerified,
              !.attributes = IF Len(userData.attributes) = 0 THEN << >>
                             ELSE <<userData.attributes>>]

\* <<q, name>>: q is a proper infix of the username name
InfixOf == { <<"b@x.com", "ab@x.com">> }

\* GET /users/?username=q finds the users whose username contains q
Found(users, q) ==
    SelectSeq(users, LAMBDA u : u.username = q \/ <<q, u.username>> \in InfixOf)

Matching(users, username) == SelectSeq(users, LAMBDA u : u.username = username)
WithId(users, id) == SelectSeq(users, LAMBDA u : u.id = id)
WithEmail(users, email) == SelectSeq(users, LAMBDA u : u.email = email)

Outcome(r, rlm) == [answer |-> r, realm |-> rlm]

\* the answers the realm rlm can give to an admin request, each with the
\* realm it leaves
Serve(rlm, req) ==
    {Outcome(NoAnswer, rlm)} \cup
    IF ~Authorized(req) THEN {Outcome(Answer(401, ErrorBody(Undefined)), rlm)}
    ELSE IF req.method = "post" THEN
        LET userData == req.data[1] IN
        IF Len(Matching(rlm.users, EffectiveUsername(userData))) > 0
        THEN {Outcome(Answer(409, ErrorBody(UserExists)), rlm)}
        ELSE IF Len(WithEmail(rlm.users, userData.email)) > 0
        THEN {Outcome(Answer(409, ErrorBody("User exists with same email")), rlm)}
        ELSE IF rlm.issued < MaxUsers
        THEN {Outcome(Answer(201, << >>),
                      [users |-> Append(rlm.users, NewRecord(rlm.issued + 1, userData)),
                       issued |-> rlm.issued + 1])}
        ELSE {}
    ELSE IF req.route = "/users/?username="
    THEN {Outcome(Answer(200, Found(rlm.users, req.arg)), rlm)}
    ELSE IF req.route = "/users{query}"
    THEN {Outcome(Answer(200, rlm.users), rlm)}
    ELSE IF Len(WithId(rlm.users, req.arg)) = 0
    THEN {Outcome(Answer(404, ErrorBody(Undefined)), rlm)}
    ELSE IF req.method = "get"
    THEN {Outcome(Answer(200, WithId(rlm.users, req.arg)), rlm)}
    ELSE IF req.method = "delete"
    THEN {Outcome(Answer(204, << >>),
                  [rlm EXCEPT !.users = SelectSeq(@, LAMBDA u : u.id # req.arg)])}
    ELSE {Outcome(Answer(204, << >>),
                  [rlm EXCEPT !.users =
                      [k \in 1..Len(@) |->
                          IF @[k].id = req.arg THEN Updated(@[k], req.data[1])
                          ELSE @[k]]])}

\* the request invocation i is waiting on
PendingRequest(i) == inv[i].reqs[Len(inv[i].reqs)]

-----------------------------------------------------------------------------
(* Initial states: no invocation has started; the realm is empty or holds  *)
(* one user created earlier.                                               *)

InitialRealms ==
    { [users |-> << >>, issued |-> 0],
      [users |-> << [id |-> IdOf(1), username |-> "ab@x.com", email |-> "ab@x.com",
                     firstName |-> "Abe", lastName |-> "Lee", enabled |-> TRUE,
                     emailVerified |-> FALSE, createdTimestamp |-> 1001,
                     attributes |-> << << >> >>] >>,
       issued |-> 1] }

Init ==
    /\ inv = [i \in Callers |-> Idle]
    /\ realm \in InitialRealms
    /\ calls = 0

-----------------------------------------------------------------------------
(* Actions *)

\* the ids a caller passes: those the realm has issued, and the next one,
\* which no user has yet
UserIds ==
    { IdOf(n) : n \in 1..(IF realm.issued < MaxUsers THEN realm.issued + 1 ELSE MaxUsers) }

\* caller i is not inside an invocation (caller 1 is the one who calls first)
CanCall(i) ==
    /\ inv[i].pc \in {"idle", "done"}
    /\ calls < MaxCalls
    /\ (IF i = 1 THEN TRUE ELSE inv[1].pc # "idle")

CallCreateUser(i) ==
    /\ CanCall(i)
    /\ \E userData \in UserDatas :
          inv' = [inv EXCEPT ![i] = Enter("createUser", <<userData>>, Undefined)]
    /\ calls' = calls + 1
    /\ UNCHANGED realm

CallGetUser(i) ==
    /\ CanCall(i)
    /\ \E username \in UserIds :
          inv' = [inv EXCEPT ![i] = Enter("getUser", << >>, username)]
    /\ calls' = calls + 1
    /\ UNCHANGED realm

CallGetUserList(i) ==
    /\ CanCall(i)
    /\ \E queryParams \in QueryParams :
          inv' = [inv EXCEPT ![i] = Enter("getUserList", << >>, queryParams)]
    /\ calls' = calls + 1
    /\ UNCHANGED realm

CallDeleteUser(i) ==
    /\ CanCall(i)
    /\ \E username \in UserIds :
          inv' = [inv EXCEPT ![i] = Enter("deleteUser", << >>, username)]
    /\ calls' = calls + 1
    /\ UNCHANGED realm

CallUpdateUser(i) ==
    /\ CanCall(i)
    /\ \E userData \in UserDatas, id \in UserIds :
          inv' = [inv EXCEPT ![i] = Enter("updateUser", <<userData>>, id)]
    /\ calls' = calls + 1
    /\ UNCHANGED realm

\* The token endpoint answers the request of getAccessToken; the operation
\* resumes and runs to its next await or to its end.

CreateUserTokenReturns(i) ==
    /\ inv[i].pc = "awaitToken"
    /\ inv[i].op = "createUser"
    /\ \E r \in TokenAnswers : inv' = [inv EXCEPT ![i] = CreateUserAfterToken(inv[i], r)]
    /\ UNCHANGED <<realm, calls>>

GetUserTokenReturns(i) ==
    /\ inv[i].pc = "awaitToken"
    /\ inv[i].op = "getUser"
    /\ \E r \in TokenAnswers : inv' = [inv EXCEPT ![i] = GetUserAfterToken(inv[i], r)]
    /\ UNCHANGED <<realm, calls>>

GetUserListTokenReturns(i) ==
    /\ inv[i].pc = "awaitToken"
    /\ inv[i].op = "getUserList"
    /\ \E r \in TokenAnswers : inv' = [inv EXCEPT ![i] = GetUserListAfterToken(inv[i], r)]
    /\ UNCHANGED <<realm, calls>>

DeleteUserTokenReturns(i) ==
    /\ inv[i].pc = "awaitToken"
    /\ inv[i].op = "deleteUser"
    /\ \E r \in TokenAnswers : inv' = [inv EXCEPT ![i] = DeleteUserAfterToken(inv[i], r)]
    /\ UNCHANGED <<realm, calls>>

UpdateUserTokenReturns(i) ==
    /\ inv[i].pc = "awaitToken"
    /\ inv[i].op = "updateUser"
    /\ \E r \in TokenAnswers : inv' = [inv EXCEPT ![i] = UpdateUserAfterToken(inv[i], r)]
    /\ UNCHANGED <<realm, calls>>

\* The realm answers the pending admin request; the operation resumes and
\* runs to its next await or to its end.

CreateUserCreateReturns(i) ==
    /\ inv[i].pc = "awaitCreate"
    /\ \E o \in Serve(realm, PendingRequest(i)) :
          /\ inv' = [inv EXCEPT ![i] = CreateUserAfterCreate(inv[i], o.answer)]
          /\ realm' = o.realm
    /\ UNCHANGED calls

CreateUserLookupCreatedReturns(i) ==
    /\ inv[i].pc = "awaitLookupCreated"
    /\ \E o \in Serve(realm, PendingRequest(i)) :
          /\ inv' = [inv EXCEPT ![i] = CreateUserAfterLookupCreated(inv[i], o.answer)]
          /\ realm' = o.realm
    /\ UNCHANGED calls

CreateUserLookupExistsReturns(i) ==
    /\ inv[i].pc = "awaitLookupExists"
    /\ \E o \in Serve(realm, PendingRequest(i)) :
          /\ inv' = [inv EXCEPT ![i] = CreateUserAfterLookupExists(inv[i], o.answer)]
          /\ realm' = o.realm
    /\ UNCHANGED calls

CreateUserUpdateReturns(i) ==
    /\ inv[i].pc = "awaitUpdate"
    /\ \E o \in Serve(realm, PendingRequest(i)) :
          /\ inv' = [inv EXCEPT ![i] = CreateUserAfterUpdate(inv[i], o.answer)]
          /\ realm' = o.realm
    /\ UNCHANGED calls

GetUserGetReturns(i) ==
    /\ inv[i].pc = "awaitGet"
    /\ \E o \in Serve(realm, PendingRequest(i)) :
          /\ inv' = [inv EXCEPT ![i] = GetUserAfterGet(inv[i], o.answer)]
          /\ realm' = o.realm
    /\ UNCHANGED calls

GetUserListGetReturns(i) ==
    /\ inv[i].pc = "awaitList"
    /\ \E o \in Serve(realm, PendingRequest(i)) :
          /\ inv' = [inv EXCEPT ![i] = GetUserListAfterGet(inv[i], o.answer)]
          /\ realm' = o.realm
    /\ UNCHANGED calls

DeleteUserDeleteReturns(i) ==
    /\ inv[i].pc = "awaitDelete"
    /\ \E o \in Serve(realm, PendingRequest(i)) :
          /\ inv' = [inv EXCEPT ![i] = DeleteUserAfterDelete(inv[i], o.answer)]
          /\ realm' = o.realm
    /\ UNCHANGED calls

UpdateUserPutReturns(i) ==
    /\ inv[i].pc = "awaitPut"
    /\ \E o \in Serve(realm, PendingRequest(i)) :
          /\ inv' = [inv EXCEPT ![i] = UpdateUserAfterPut(inv[i], o.answer)]
          /\ realm' = o.realm
    /\ UNCHANGED calls

Next ==
    \E i \in Callers :
        \/ CallCreateUser(i)
        \/ CallGetUser(i)
        \/ CallGetUserList(i)
        \/ CallDeleteUser(i)
        \/ CallUpdateUser(i)
        \/ CreateUserTokenReturns(i)
        \/ CreateUserCreateReturns(i)
        \/ CreateUserLookupCreatedReturns(i)
        \/ CreateUserLookupExistsReturns(i)
        \/ CreateUserUpdateReturns(i)
        \/ GetUserTokenReturns(i)
        \/ GetUserGetReturns(i)
        \/ GetUserListTokenReturns(i)
        \/ GetUserListGetReturns(i)
        \/ DeleteUserTokenReturns(i)
        \/ DeleteUserDeleteReturns(i)
        \/ UpdateUserTokenReturns(i)
        \/ UpdateUserPutReturns(i)

Spec == Init /\ [][Next]_vars

-----------------------------------------------------------------------------
(* Vocabulary of the properties *)

Frames(op) == { i \in Callers : inv[i].op = op }

Finished(i) == inv[i].pc = "done"
Returned(i) == inv[i].outcome.kind = "returned"
Threw(i) == inv[i].outcome.kind = "threw"
Result(i) == inv[i].outcome.value[1]
Raised(i) == inv[i].outcome.error[1]

\* the k-th request invocation i issued, and the answer it got
Req(i, k) == inv[i].reqs[k]
Ans(i, k) == inv[i].resps[k]
Answered(i, k) == Len(inv[i].resps) >= k

NumReqs(i, method) == Len(SelectSeq(inv[i].reqs, LAMBDA q : q.method = method))
NumAdminReqs(i, method) ==
    Len(SelectSeq(inv[i].reqs,
                  LAMBDA q : q.method = method /\ q.route # "/protocol/openid-connect/token"))
IsTokenReq(q) == q.method = "post" /\ q.route = "/protocol/openid-connect/token"

Accepted(r) == r.status >= 200 /\ r.status < 300
ConflictAnswer(r) ==
    /\ ~Accepted(r)
    /\ Len(r.data) > 0
    /\ r.data[1].errorMessage = "User exists with same username"

\* the error axios raises for a rejected answer r
Rejection(r) ==
    [name |-> "AxiosError", message |-> "Request failed",
     response |-> IF r.status = 0 THEN << >> ELSE <<r>>, cause |-> << >>]

IsAdminError(e, message, cause) ==
    e.name = "KeyCloakAdminError" /\ e.message = message /\ e.cause = <<cause>>

\* createUser invocations by the answer their create request (POST) got
CreateAnswered(i) == inv[i].op = "createUser" /\ Answered(i, 2)
CreateAccepted(i) == CreateAnswered(i) /\ Accepted(Ans(i, 2))
CreateConflict(i) == CreateAnswered(i) /\ ConflictAnswer(Ans(i, 2))
Email(i) == inv[i].userData[1].email

IsLookupByEmail(i, k) ==
    /\ Len(inv[i].reqs) >= k
    /\ Req(i, k).method = "get"
    /\ Req(i, k).route = "/users/?username="
    /\ Req(i, k).arg = Email(i)

\* the lookup (third request) was answered with at least one record
LookupFound(i) == Answered(i, 3) /\ Accepted(Ans(i, 3)) /\ Len(Ans(i, 3).data) > 0

IsUpdateOfFirst(i, k) ==
    /\ Len(inv[i].reqs) >= k
    /\ Req(i, k).method = "put"
    /\ Req(i, k).route = "/users/{id}"
    /\ Req(i, k).arg = Ans(i, 3).data[1].id
    /\ Req(i, k).data = inv[i].userData

ThrewCreationError(i) ==
    /\ Threw(i)
    /\ Raised(i).name = "KeyCloakAdminError"
    /\ Raised(i).message = "Could not create a new user: " \o Email(i)
    /\ Len(Raised(i).cause) = 1

-----------------------------------------------------------------------------
(* C1 *)

\* C1 as stated: whenever createUser's POST is rejected with the
\* exists-conflict, the finished invocation has issued one lookup by email,
\* then exactly one PUT of userData to the first record's id, and returned
\* that id.
C1_AsStated ==
    \A i \in Callers :
        (CreateConflict(i) /\ Finished(i)) =>
            /\ IsLookupByEmail(i, 3)
            /\ LookupFound(i)
            /\ IsUpdateOfFirst(i, 4)
            /\ NumAdminReqs(i, "put") = 1
            /\ NumAdminReqs(i, "post") = 1
            /\ Returned(i)
            /\ Result(i) = Ans(i, 3).data[1].id

\* C1 (amended): after an exists-conflict the invocation issues one lookup by
\* email and never a second create; if the lookup is answered with at least
\* one record it issues exactly one PUT of userData to the first record's id,
\* and it returns that id if the PUT is accepted; if the lookup fails or finds
\* nothing no PUT is issued; whenever the lookup or the PUT fails the
\* invocation fails with the user-creation error.
C1_ConflictPath ==
    \A i \in Callers :
        CreateConflict(i) =>
            /\ IsLookupByEmail(i, 3)
            /\ NumReqs(i, "get") = 1
            /\ NumAdminReqs(i, "post") = 1
            /\ Len(inv[i].reqs) <= 4
            /\ (Answered(i, 3) /\ LookupFound(i)) =>
                  IsUpdateOfFirst(i, 4) /\ NumAdminReqs(i, "put") = 1
            /\ (Answered(i, 3) /\ ~LookupFound(i)) =>
                  NumAdminReqs(i, "put") = 0 /\ Finished(i) /\ ThrewCreationError(i)
            /\ (Answered(i, 4) /\ Accepted(Ans(i, 4))) =>
                  Finished(i) /\ Returned(i) /\ Result(i) = Ans(i, 3).data[1].id
            /\ (Answered(i, 4) /\ ~Accepted(Ans(i, 4))) =>
                  /\ Finished(i)
                  /\ ThrewCreationError(i)
                  /\ Raised(i).cause = <<Rejection(Ans(i, 4))>>

C1_Witness ==
    \E i \in Callers :
        /\ CreateConflict(i)
        /\ Finished(i)
        /\ Returned(i)
        /\ Len(inv[i].reqs) = 4
        /\ Result(i) = Ans(i, 3).data[1].id

-----------------------------------------------------------------------------
(* C2 *)

\* C2 as stated: whenever createUser's POST is accepted, the finished
\* invocation has looked up by email, issued no PUT, and returned the id of
\* the first record of the lookup.
C2_AsStated ==
    \A i \in Callers :
        (CreateAccepted(i) /\ Finished(i)) =>
            /\ IsLookupByEmail(i, 3)
            /\ NumAdminReqs(i, "put") = 0
            /\ LookupFound(i)
            /\ Returned(i)
            /\ Result(i) = Ans(i, 3).data[1].id

\* C2 (amended): after an accepted create the invocation issues exactly one
\* further request, the lookup with username = userData.email, and no PUT; it
\* returns the id of the first record when the lookup is answered with at
\* least one record, and fails with the user-creation error when the lookup
\* fails or finds nothing.
C2_CreatedPath ==
    \A i \in Callers :
        CreateAccepted(i) =>
            /\ IsLookupByEmail(i, 3)
            /\ Len(inv[i].reqs) = 3
            /\ NumAdminReqs(i, "put") = 0
            /\ (Answered(i, 3) /\ LookupFound(i)) =>
                  Finished(i) /\ Returned(i) /\ Result(i) = Ans(i, 3).data[1].id
            /\ (Answered(i, 3) /\ ~LookupFound(i)) =>
                  Finished(i) /\ ThrewCreationError(i)

C2_Witness ==
    \E i \in Callers :
        /\ CreateAccepted(i)
        /\ Finished(i)
        /\ Returned(i)
        /\ Result(i) = Ans(i, 3).data[1].id
        /\ inv[i].userData[1].username = Undefined

-----------------------------------------------------------------------------
(* C3 *)

InRealm(id) == \E k \in 1..Len(realm.users) : realm.users[k].id = id

-----------------------------------------------------------------------------
(* C4 *)

\* C4: when createUser's POST fails with anything but the exists-conflict,
\* the invocation is over with only the token request and the POST issued,
\* and it failed with KeyCloakAdminError 'Could not create a new user:
\* <email>' whose cause is the error of the POST.
C4_OtherFailure ==
    \A i \in Callers :
        (CreateAnswered(i) /\ ~Accepted(Ans(i, 2)) /\ ~ConflictAnswer(Ans(i, 2))) =>
            /\ Finished(i)
            /\ Len(inv[i].reqs) = 2
            /\ NumReqs(i, "get") = 0
            /\ NumReqs(i, "put") = 0
            /\ Threw(i)
            /\ IsAdminError(Raised(i), "Could not create a new user: " \o Email(i),
                            Rejection(Ans(i, 2)))

C4_Witness ==
    \E i \in Callers :
        /\ CreateAnswered(i)
        /\ Ans(i, 2).status = 409
        /\ ~ConflictAnswer(Ans(i, 2))
        /\ Threw(i)

-----------------------------------------------------------------------------
(* C5 *)

TokenUsable(r) ==
    /\ Accepted(r)
    /\ Len(r.data) > 0
    /\ r.data[1].access_token # Undefined
    /\ r.data[1].access_token # ""

\* C5: an updateUser invocation never ends by throwing: once its last request
\* is answered it has returned undefined, whatever failed; and when the token
\* fetch failed or gave no token, no PUT was issued.
C5_UpdateSwallows ==
    \A i \in Frames("updateUser") :
        /\ ~Threw(i)
        /\ Finished(i) => Returned(i) /\ Result(i) = Undefined
        /\ (Answered(i, 1) /\ ~TokenUsable(Ans(i, 1))) =>
              Finished(i) /\ NumReqs(i, "put") = 0 /\ Len(inv[i].reqs) = 1
        /\ Answered(i, 2) => Finished(i)

C5_Witness ==
    /\ \E i \in Frames("updateUser") :
          Finished(i) /\ Answered(i, 2) /\ ~Accepted(Ans(i, 2)) /\ Returned(i)
    /\ \E i \in Frames("updateUser") :
          Finished(i) /\ ~Answered(i, 2) /\ ~Accepted(Ans(i, 1)) /\ Returned(i)

-----------------------------------------------------------------------------
(* C6 *)

Propagating == {"createUser", "getUser", "getUserList", "deleteUser"}

\* the message of each operation's own error
OwnMessage(i) ==
    CASE inv[i].op = "createUser" -> "Could not create a new user: " \o Email(i)
      [] inv[i].op = "getUser" -> "Error while getting a user with " \o inv[i].arg
      [] inv[i].op = "getUserList" -> "Error while getting a users"
      [] inv[i].op = "deleteUser" -> "Error while deleting a user with " \o inv[i].arg

\* the k-th answer is a failure the operation does not recover from
Fails(i, k) ==
    /\ Answered(i, k)
    /\ ~Accepted(Ans(i, k))
    /\ ~(k = 2 /\ CreateConflict(i))

DeleteReturnsRaw(i) ==
    (inv[i].op = "deleteUser" /\ Answered(i, 2) /\ Accepted(Ans(i, 2))) =>
        Finished(i) /\ Returned(i) /\ Result(i) = Ans(i, 2)

\* C6 as stated: in createUser, getUser, getUserList and deleteUser every
\* failed request, the token request included, ends the invocation with the
\* operation's own error carrying the failure as cause; deleteUser returns
\* the raw answer on success.
C6_AsStated ==
    \A i \in Callers :
        inv[i].op \in Propagating =>
            /\ \A k \in 1..Len(inv[i].resps) :
                  Fails(i, k) =>
                      /\ Finished(i)
                      /\ Threw(i)
                      /\ IsAdminError(Raised(i), OwnMessage(i), Rejection(Ans(i, k)))
            /\ DeleteReturnsRaw(i)

\* C6 (amended): in these four operations a failed admin request ends the
\* invocation with the operation's own error carrying the failure as cause,
\* and a failed token request ends it with the token-acquisition error
\* ('Could not get a access token') carrying the failure as cause; deleteUser
\* returns the raw answer when its delete request succeeds.
C6_Propagation ==
    \A i \in Callers :
        inv[i].op \in Propagating =>
            /\ Fails(i, 1) =>
                  /\ Finished(i)
                  /\ Threw(i)
                  /\ IsAdminError(Raised(i), "Could not get a access token",
                                  Rejection(Ans(i, 1)))
            /\ \A k \in 2..Len(inv[i].resps) :
                  Fails(i, k) =>
                      /\ Finished(i)
                      /\ Threw(i)
                      /\ IsAdminError(Raised(i), OwnMessage(i), Rejection(Ans(i, k)))
            /\ DeleteReturnsRaw(i)

C6_Witness ==
    /\ \E i \in Frames("deleteUser") : Fails(i, 2) /\ Threw(i)
    /\ \E i \in Callers : inv[i].op \in Propagating /\ Fails(i, 1) /\ Threw(i)

-----------------------------------------------------------------------------
(* C7 *)

\* C7: every invocation issues exactly one token request, as its first
\* request, and each of its admin requests carries the token that this
\* invocation's own token request was answered with.
C7_OwnToken ==
    \A i \in Callers :
        inv[i].pc # "idle" =>
            /\ Len(inv[i].reqs) >= 1
            /\ IsTokenReq(Req(i, 1))
            /\ \A k \in 2..Len(inv[i].reqs) :
                  /\ ~IsTokenReq(Req(i, k))
                  /\ Accepted(Ans(i, 1))
                  /\ Len(Ans(i, 1).data) = 1
                  /\ Req(i, k).auth = "Bearer " \o Ans(i, 1).data[1].access_token

\* two invocations in flight at once, holding different tokens
C7_Witness ==
    \E i, j \in Callers :
        /\ inv[i].pc \notin {"idle", "done", "awaitToken"}
        /\ inv[j].pc \notin {"idle", "done", "awaitToken"}
        /\ Req(i, 2).auth = "Bearer t1"
        /\ Req(j, 2).auth = "Bearer t2"

-----------------------------------------------------------------------------
(* C8 *)

\* C8 as stated: at most two requests per invocation, three on createUser's
\* exists-conflict path.
C8_AsStated ==
    \A i \in Callers :
        Len(inv[i].reqs) <= IF CreateConflict(i) THEN 3 ELSE 2

\* C8 (amended): getUser, getUserList, deleteUser and updateUser issue at
\* most two requests per invocation; createUser issues at most three (token,
\* create, lookup) and at most four on the exists-conflict path (token,
\* create, lookup, update); requests are issued one after the other, each
\* after the previous one was answered, and none is issued twice.
C8_RequestCount ==
    \A i \in Callers :
        /\ Len(inv[i].reqs) <=
              IF inv[i].op = "createUser"
              THEN (IF CreateConflict(i) THEN 4 ELSE 3)
              ELSE 2
        /\ Len(inv[i].reqs) <= Len(inv[i].resps) + 1
        /\ \A k, l \in 1..Len(inv[i].reqs) : k # l => Req(i, k) # Req(i, l)

C8_Witness ==
    /\ \E i \in Callers : CreateConflict(i) /\ Len(inv[i].reqs) = 4
    /\ \E i \in Callers : CreateAccepted(i) /\ Len(inv[i].reqs) = 3

-----------------------------------------------------------------------------
(* C9 *)

HasBody(r) == Accepted(r) /\ Len(r.data) = 1
HasToken(r) == HasBody(r) /\ r.data[1].access_token # Undefined

ThrewTokenError(i) ==
    /\ Finished(i)
    /\ Threw(i)
    /\ Raised(i).name = "KeyCloakAdminError"
    /\ Raised(i).message = "Could not get a access token"

\* C9 as stated: a 200 answer with an access_token gives the invocation that
\* string as its token; any other answer (non-2xx, no body, or a 200 body
\* without access_token) ends the invocation with the token-acquisition
\* error.  (updateUser swallows that error, so it is left out.)
C9_AsStated ==
    \A i \in Callers :
        Answered(i, 1) =>
            /\ HasToken(Ans(i, 1)) => inv[i].accessToken = Ans(i, 1).data[1].access_token
            /\ (~HasToken(Ans(i, 1)) /\ inv[i].op # "updateUser") => ThrewTokenError(i)

\* C9 (amended): a 2xx answer with a body gives the invocation the body's
\* access_token member as its token: that string when the member is present,
\* and undefined, without any error from getAccessToken, when it is absent
\* (createUser then goes on with 'Bearer undefined'; getUser, getUserList and
\* deleteUser fail with the plain Error 'Keycloak admin client is not
\* initialized').  A non-2xx answer or a 2xx answer without a body ends the
\* invocation with the token-acquisition error carrying the cause.
C9_TokenResult ==
    \A i \in Callers :
        Answered(i, 1) =>
            /\ HasBody(Ans(i, 1)) =>
                  /\ inv[i].accessToken = Ans(i, 1).data[1].access_token
                  /\ ~ThrewTokenError(i)
            /\ (HasBody(Ans(i, 1)) /\ ~HasToken(Ans(i, 1))) =>
                  /\ inv[i].op = "createUser" =>
                        /\ Len(inv[i].reqs) >= 2
                        /\ Req(i, 2).auth = "Bearer undefined"
                  /\ inv[i].op \in {"getUser", "getUserList", "deleteUser"} =>
                        /\ Finished(i)
                        /\ Threw(i)
                        /\ Raised(i).name = "Error"
                        /\ Raised(i).message = "Keycloak admin client is not initialized"
                        /\ Raised(i).cause = << >>
            /\ (~HasBody(Ans(i, 1)) /\ inv[i].op # "updateUser") =>
                  /\ ThrewTokenError(i)
                  /\ Raised(i).cause =
                        IF Accepted(Ans(i, 1))
                        THEN << [name |-> "TypeError",
                                 message |-> "Cannot read properties of undefined",
                                 response |-> << >>, cause |-> << >>] >>
                        ELSE << Rejection(Ans(i, 1)) >>

C9_Witness ==
    /\ \E i \in Frames("createUser") :
          /\ Answered(i, 1)
          /\ HasBody(Ans(i, 1))
          /\ ~HasToken(Ans(i, 1))
          /\ Len(inv[i].reqs) >= 2
    /\ \E i \in Callers :
          Answered(i, 1) /\ HasToken(Ans(i, 1)) /\ inv[i].accessToken = "t2"

-----------------------------------------------------------------------------
(* C10 *)

\* the remote record a getUser invocation was answered with
Fetched(i) == Ans(i, 2).data[1]
GotRecord(i) ==
    inv[i].op = "getUser" /\ Answered(i, 2) /\ Accepted(Ans(i, 2)) /\ Len(Ans(i, 2).data) = 1

Entry(name, value) == [Name |-> name, Value |-> value]

\* C10: when the fetched record has an attributes map, getUser returns a view
\* whose UserAttributes are one entry per attribute key, in key order, with
\* the first element of the key's value list, followed by sub, emailVerified,
\* given_name, family_name and email, and whose UserCreateDate and
\* UserLastModifiedDate both are the record's createdTimestamp; when the
\* record has no attributes map, getUser fails with the user-lookup error.
C10_View ==
    \A i \in Callers :
        GotRecord(i) =>
            IF Len(Fetched(i).attributes) = 0
            THEN /\ Finished(i)
                 /\ Threw(i)
                 /\ Raised(i).name = "KeyCloakAdminError"
                 /\ Raised(i).message = "Error while getting a user with " \o inv[i].arg
            ELSE LET rec == Fetched(i)
                     attrs == rec.attributes[1]
                     n == Len(attrs)
                     list == Result(i).UserAttributes
                 IN  /\ Finished(i)
                     /\ Returned(i)
                     /\ Len(list) = n + 5
                     /\ \A k \in 1..n :
                           /\ list[k].Name = attrs[k][1]
                           /\ list[k].Value =
                                 IF attrs[k][2] = << >> THEN Undefined ELSE attrs[k][2][1]
                     /\ list[n + 1] = Entry("sub", rec.id)
                     /\ list[n + 2] = Entry("emailVerified", rec.emailVerified)
                     /\ list[n + 3] = Entry("given_name", rec.firstName)
                     /\ list[n + 4] = Entry("family_name", rec.lastName)
                     /\ list[n + 5] = Entry("email", rec.email)
                     /\ Result(i).UserCreateDate = Result(i).UserLastModifiedDate
                     /\ Result(i).UserCreateDate = [time |-> rec.createdTimestamp]
                     /\ Result(i).Enabled = rec.enabled
                     /\ Result(i).Username = rec.id

C10_Witness ==
    \E i \in Callers :
        /\ GotRecord(i)
        /\ Returned(i)
        /\ Len(Fetched(i).attributes) = 1
        /\ Len(Fetched(i).attributes[1]) = 2
        /\ Len(Result(i).UserAttributes) = 7

====
